---- MODULE Spec2Model ----
(***************************************************************************)
(* Model of the common-likes aggregation of src/common_likes.py.           *)
(*                                                                         *)
(* find_common_likes is a pure function over an insertion-ordered mapping  *)
(* artist name -> list of Track.  The mapping is modelled as a sequence of *)
(* [name, tracks] records with pairwise distinct names (the sequence order *)
(* is the dict's iteration order); a Track is a record [id, title]; a      *)
(* title is a sequence of character codes, so that str.lower() and the     *)
(* lexicographic comparison of strings are computed, not assumed.  The     *)
(* artist and url fields of Track are carried along with title by the code *)
(* and never read by find_common_likes; title stands for that payload.     *)
(***************************************************************************)
EXTENDS Integers, Sequences, FiniteSets, TLC

VARIABLES
    \* find_common_likes: its arguments, its return value, called / returned
    artist_likes, min_artists, result, pc,
    \* telegram_bot.py: the global active_jobs, and per message the position of
    \* its handler, its user and the external calls it has started
    active_jobs, job_pc, job_user, job_did,
    \* main of common_likes.py: its position, the parsed arguments, the index
    \* of the next artist url, the names get_artist_likes returned with a
    \* non-empty like list, and the calls and writes made so far
    main_pc, main_args, main_next, main_ok, main_log,
    \* find_common_likes as Python runs it: the dict the last call built, the
    \* first value returned for each threshold, whether a threshold was used
    \* twice, the list objects by address, the addresses of the liker lists
    \* returned, and the exception raised ("none" when the call returned)
    track_to_artists, returned, repeated, heap, result_refs, error,
    \* the segment walks of soundcloud_to_spotify.py and telegram_bot.py: the
    \* audio length and the two segment settings in milliseconds, and for each
    \* walk under way its position in the code, its loop variables, the
    \* temporary files that exist, every recognition the recogniser returned
    \* and the outcome of its last attempt
    duration_ms, segment_duration, segment_step, walk_pc, position, attempt,
    identified_tracks, seen_tracks, tmp_files, recognised, last_outcome,
    last_update,
    \* the batch loops before playlist_add_items: the uri list, the batches
    \* passed so far, the loop index, the position in the code and the
    \* function the loop is in
    uris, batches, batch_i, batch_pc, batch_site,
    \* the fetch loop of main of common_likes.py around get_artist_likes:
    \* --limit, the index of the url being fetched, the position in
    \* get_artist_likes, its list tracks, the likes the generator has yielded,
    \* the value returned, the dict artist_likes of main, and the urls whose
    \* fetch raised
    fetch_limit, fetch_next, gal_pc, gal_tracks, gal_stream, gal_ret,
    fetch_likes, fetch_failed,
    \* SoundCloudToSpotify.convert: its position, its arguments, the tracks it
    \* holds, the steps it has started and the exception it raised
    conv_pc, conv_args, conv_tracks, conv_did, conv_error

fclVars == <<artist_likes, min_artists, result, pc>>

botVars == <<active_jobs, job_pc, job_user, job_did>>

mainVars == <<main_pc, main_args, main_next, main_ok, main_log>>

callVars == <<track_to_artists, returned, repeated, heap, result_refs, error>>

walkVars == <<duration_ms, segment_duration, segment_step, walk_pc, position,
              attempt, identified_tracks, seen_tracks, tmp_files, recognised,
              last_outcome, last_update>>

batchVars == <<uris, batches, batch_i, batch_pc, batch_site>>

fetchVars == <<fetch_limit, fetch_next, gal_pc, gal_tracks, gal_stream, gal_ret,
               fetch_likes, fetch_failed>>

convVars == <<conv_pc, conv_args, conv_tracks, conv_did, conv_error>>

extVars == <<walkVars, batchVars, fetchVars, convVars>>

coreVars == <<fclVars, botVars, mainVars, callVars>>

vars == <<fclVars, botVars, mainVars, callVars, extVars>>

\* no segment walk is under way
WalkOff ==
    /\ duration_ms = 0
    /\ segment_duration = 0
    /\ segment_step = 0
    /\ walk_pc = <<>>
    /\ position = <<>>
    /\ attempt = <<>>
    /\ identified_tracks = <<>>
    /\ seen_tracks = <<>>
    /\ tmp_files = <<>>
    /\ recognised = <<>>
    /\ last_outcome = <<>>
    /\ last_update = <<>>

\* no batch loop is under way
BatchOff ==
    /\ uris = <<>>
    /\ batches = <<>>
    /\ batch_i = 0
    /\ batch_pc = "off"
    /\ batch_site = "none"

\* no fetch loop is under way
FetchOff ==
    /\ fetch_limit = 0
    /\ fetch_next = 0
    /\ gal_pc = "off"
    /\ gal_tracks = <<>>
    /\ gal_stream = <<>>
    /\ gal_ret = <<>>
    /\ fetch_likes = <<>>
    /\ fetch_failed = {}

\* convert is not running
ConvOff ==
    /\ conv_pc = "off"
    /\ conv_args = <<>>
    /\ conv_tracks = <<>>
    /\ conv_did = <<>>
    /\ conv_error = "none"

ExtOff ==
    /\ WalkOff
    /\ BatchOff
    /\ FetchOff
    /\ ConvOff

\* no call is traced
CallsOff ==
    /\ track_to_artists = <<>>
    /\ returned = <<>>
    /\ repeated = FALSE
    /\ heap = <<>>
    /\ result_refs = <<>>
    /\ error = "none"

\* main of common_likes.py is not running
MainOff ==
    /\ main_pc = "off"
    /\ main_args = <<>>
    /\ main_next = 0
    /\ main_ok = {}
    /\ main_log = <<>>

\* the bot is not running
BotOff ==
    /\ active_jobs = <<>>
    /\ job_pc = <<>>
    /\ job_user = <<>>
    /\ job_did = <<>>

\* no aggregation is under way
FclOff ==
    /\ artist_likes = <<>>
    /\ min_artists = 2
    /\ result = <<>>
    /\ pc = "off"

(***************************************************************************)
(* Bounds of the input space.                                              *)
(***************************************************************************)
\* largest number of artists (keys of artist_likes)
MaxArtists == 2
\* largest total number of likes over all like lists
MaxLikes == 3
\* track ids are 1..MaxId
MaxId == 2

NamePool == <<"A", "B", "C", "D">>

\* "B" and "a": "B" < "a" as raw strings while lower("B") > "a"
Titles == {<<66>>, <<97>>}

Tracks == [id : 1..MaxId, title : Titles]

\* thresholds tried, the values below 1 included: main passes --min-artists on
\* as parsed
MinArtistsValues == 0..MaxArtists

SeqsUpTo(S, n) == UNION {[1..k -> S] : k \in 0..n}

\* the key orders tried: the first k names of the pool, in every order
NameOrders ==
    UNION {{ns \in [1..k -> {NamePool[i] : i \in 1..k}] :
               \A i, j \in 1..k : i # j => ns[i] # ns[j]} : k \in 0..MaxArtists}

\* the ways of cutting a flat sequence of k likes into a like lists, in order
Owners(k, a) ==
    {f \in [1..k -> 1..a] : \A i, j \in 1..k : i <= j => f[i] <= f[j]}

ListOf(flat, f, i) == SelectSeq([p \in 1..Len(flat) |-> <<flat[p], f[p]>>],
                                LAMBDA x : x[2] = i)

TracksOf(flat, f, i) ==
    LET l == ListOf(flat, f, i) IN [p \in 1..Len(l) |-> l[p][1]]

\* the mapping whose i-th key is ns[i], with the likes of flat cut as f says
MakeArtistLikes(ns, flat, f) ==
    [i \in 1..Len(ns) |-> [name |-> ns[i], tracks |-> TracksOf(flat, f, i)]]

FlatLikes(ns) == IF Len(ns) = 0 THEN {<<>>} ELSE SeqsUpTo(Tracks, MaxLikes)

(***************************************************************************)
(* str.lower() and string comparison.                                      *)
(***************************************************************************)
\* str.lower() on one ASCII character
Lower(c) == IF c >= 65 /\ c <= 90 THEN c + 32 ELSE c

LowerStr(s) == [i \in 1..Len(s) |-> Lower(s[i])]

RECURSIVE StrLess(_, _)
\* s < t for Python strings (lexicographic by code point)
StrLess(s, t) ==
    IF s = <<>> THEN t # <<>>
    ELSE IF t = <<>> THEN FALSE
    ELSE IF s[1] # t[1] THEN s[1] < t[1]
    ELSE StrLess(Tail(s), Tail(t))

(***************************************************************************)
(* find_common_likes: the dict track_to_artists is a sequence of entries   *)
(* [key, track, artists] in insertion order (the order of .values()).      *)
(***************************************************************************)
EmptyMapStale == << [key |-> 1, track |-> [id |-> 1, title |-> <<97>>], artists |-> <<"A">>] >>

KeptMap == track_to_artists

\* track_to_artists = {}
EmptyMap == << >>

HasKeyNever(tta, id) == FALSE

\* track.id in track_to_artists
HasKey(tta, id) == \E p \in 1..Len(tta) : tta[p].key = id

\* track_to_artists[track.id] = (track, [])
NewEntry(tta, track) ==
    Append(tta, [key |-> track.id, track |-> track, artists |-> <<>>])

AppendArtistFront(tta, id, artist_name) ==
    [p \in 1..Len(tta) |->
        IF tta[p].key = id
        THEN [tta[p] EXCEPT !.artists = <<artist_name>> \o @]
        ELSE tta[p]]

\* track_to_artists[track.id][1].append(artist_name)
AppendArtist(tta, id, artist_name) ==
    [p \in 1..Len(tta) |->
        IF tta[p].key = id
        THEN [tta[p] EXCEPT !.artists = Append(@, artist_name)]
        ELSE tta[p]]

AddLikeLastCopy(tta, artist_name, track) ==
    LET t1 == IF ~HasKey(tta, track.id) THEN NewEntry(tta, track) ELSE tta
        t2 == [p \in 1..Len(t1) |->
                 IF t1[p].key = track.id THEN [t1[p] EXCEPT !.track = track]
                 ELSE t1[p]]
    IN  AppendArtist(t2, track.id, artist_name)

\* body of the inner loop
AddLike(tta, artist_name, track) ==
    LET t1 == IF ~HasKey(tta, track.id) THEN NewEntry(tta, track) ELSE tta
    IN  AppendArtist(t1, track.id, artist_name)

RECURSIVE AddLikesSkipLast(_, _, _)
AddLikesSkipLast(tta, artist_name, tracks) ==
    IF Len(tracks) <= 1 THEN tta
    ELSE AddLikesSkipLast(AddLike(tta, artist_name, Head(tracks)),
                          artist_name, Tail(tracks))

RECURSIVE AddLikes(_, _, _)
\* for track in tracks: ...
AddLikes(tta, artist_name, tracks) ==
    IF tracks = <<>> THEN tta
    ELSE AddLikes(AddLike(tta, artist_name, Head(tracks)),
                  artist_name, Tail(tracks))

RECURSIVE AddArtists(_, _)
\* for artist_name, tracks in artist_likes.items(): ...
AddArtists(tta, al) ==
    IF al = <<>> THEN tta
    ELSE AddArtists(AddLikes(tta, Head(al).name, Head(al).tracks), Tail(al))

TrackToArtists(al) == AddArtists(EmptyMap, al)

CommonStrict(tta, m) == SelectSeq(tta, LAMBDA e : Len(e.artists) > m)

\* [(track, artists) for ... in track_to_artists.values() if len(artists) >= min_artists]
Common(tta, m) == SelectSeq(tta, LAMBDA e : Len(e.artists) >= m)

SortKeyRawTitle(e) == << -Len(e.artists), e.track.title >>

\* key=lambda x: (-len(x[1]), x[0].title.lower())
SortKey(e) == << -Len(e.artists), LowerStr(e.track.title) >>

\* k1 < k2 for the key tuples
KeyLess(k1, k2) ==
    \/ k1[1] < k2[1]
    \/ k1[1] = k2[1] /\ StrLess(k1[2], k2[2])

InsertBeforeEqual(s, x) ==
    LET p == Cardinality({i \in 1..Len(s) : KeyLess(SortKey(s[i]), SortKey(x))})
    IN  SubSeq(s, 1, p) \o <<x>> \o SubSeq(s, p + 1, Len(s))

\* one step of the stable sort: x goes after every element whose key is not
\* greater than its own
InsertSorted(s, x) ==
    LET p == Cardinality({i \in 1..Len(s) : ~KeyLess(SortKey(x), SortKey(s[i]))})
    IN  SubSeq(s, 1, p) \o <<x>> \o SubSeq(s, p + 1, Len(s))

RECURSIVE SortInto(_, _)
SortInto(sorted, rest) ==
    IF rest = <<>> THEN sorted
    ELSE SortInto(InsertSorted(sorted, Head(rest)), Tail(rest))

\* common.sort(key=...): list.sort is stable
SortCommon(common) == SortInto(<<>>, common)

\* the returned list of (track, artists)
find_common_likes(al, m) ==
    LET sorted == SortCommon(Common(TrackToArtists(al), m))
    IN  [p \in 1..Len(sorted) |->
            [track |-> sorted[p].track, artists |-> sorted[p].artists]]

(***************************************************************************)
(* The state machine: an input mapping, and calls of find_common_likes.    *)
(***************************************************************************)
Init ==
    /\ \E ns \in NameOrders : \E flat \in FlatLikes(ns) :
          \E f \in Owners(Len(flat), Len(ns)) :
             artist_likes = MakeArtistLikes(ns, flat, f)
    /\ min_artists = 2
    /\ result = <<>>
    /\ pc = "ready"
    /\ BotOff
    /\ ExtOff
    /\ MainOff
    /\ CallsOff

\* the one call a run makes (main, line 253)
Call(m) ==
    /\ pc = "ready"
    /\ min_artists' = m
    /\ result' = find_common_likes(artist_likes, m)
    /\ pc' = "done"
    /\ UNCHANGED artist_likes
    /\ UNCHANGED <<botVars, mainVars, callVars, extVars>>

Next == \E m \in MinArtistsValues : Call(m)

Spec == Init /\ [][Next]_vars

(***************************************************************************)
(* What the input says about a track id, computed from artist_likes alone. *)
(***************************************************************************)
ArtistIdx == 1..Len(artist_likes)

LikePos(i) == 1..Len(artist_likes[i].tracks)

\* the (artist, position) pairs at which the id occurs
Occurrences(id) ==
    {<<i, j>> \in ArtistIdx \X (1..MaxLikes) :
        j \in LikePos(i) /\ artist_likes[i].tracks[j].id = id}

\* the artists whose like list contains the id
Likers(id) == {i \in ArtistIdx : \E j \in LikePos(i) : artist_likes[i].tracks[j].id = id}

SeenIds == {id \in 1..MaxId : Occurrences(id) # {}}

\* iteration order: artist by artist, track by track
Before(o1, o2) == o1[1] < o2[1] \/ (o1[1] = o2[1] /\ o1[2] < o2[2])

FirstOccurrence(id) ==
    CHOOSE o \in Occurrences(id) : \A o2 \in Occurrences(id) : o2 = o \/ Before(o, o2)

NameIndex(n) == CHOOSE i \in ArtistIdx : artist_likes[i].name = n

ResultIds == {result[p].track.id : p \in 1..Len(result)}

Done == pc = "done"

\* C1: for min_artists >= 1 an id is returned iff its liker list (one name per
\* occurrence of the id in the like lists) has length >= min_artists, and every
\* returned liker list has length >= min_artists.
C1_Threshold ==
    (Done /\ min_artists >= 1) =>
        /\ \A p \in 1..Len(result) : Len(result[p].artists) >= min_artists
        /\ \A id \in SeenIds :
              (id \in ResultIds) <=> (Cardinality(Occurrences(id)) >= min_artists)
        /\ ResultIds \subseteq SeenIds

C1_Witness ==
    /\ Done /\ min_artists = 2
    /\ \E id \in SeenIds : id \in ResultIds /\ Cardinality(Occurrences(id)) = 2
    /\ \E id \in SeenIds : id \notin ResultIds /\ Cardinality(Occurrences(id)) = 1

\* C2: every returned track is liked by at least min_artists distinct artists.
C2_DistinctLikers ==
    Done => \A p \in 1..Len(result) :
                Cardinality(Likers(result[p].track.id)) >= min_artists

\* C3: in every returned entry each artist name appears at most once in the
\* liker list.
C3_NoRepeatedArtist ==
    Done => \A p \in 1..Len(result) :
                \A a, b \in 1..Len(result[p].artists) :
                    a # b => result[p].artists[a] # result[p].artists[b]

\* C4: each track id appears in at most one entry of the result.
C4_UniqueIds ==
    Done => \A p, q \in 1..Len(result) :
                p # q => result[p].track.id # result[q].track.id

C4_Witness ==
    /\ Done /\ Len(result) = 2
    /\ \E p \in 1..Len(result) :
          /\ Cardinality(Occurrences(result[p].track.id)) >= 2
          /\ Cardinality(Likers(result[p].track.id)) >= 2

\* C5: the result is sorted by descending liker count, then ascending
\* lowercased title.
C5_Sorted ==
    Done => \A p \in 1..Len(result) - 1 :
                LET a == result[p]
                    b == result[p + 1]
                IN  \/ Len(a.artists) > Len(b.artists)
                    \/ /\ Len(a.artists) = Len(b.artists)
                       /\ ~StrLess(LowerStr(b.track.title), LowerStr(a.track.title))

\* a tie on the count where the sort moved "a" in front of "B"
C5_Witness ==
    /\ Done /\ Len(result) = 2
    /\ Len(result[1].artists) = Len(result[2].artists)
    /\ result[1].track.title = <<97>> /\ result[2].track.title = <<66>>
    /\ Before(FirstOccurrence(result[2].track.id),
              FirstOccurrence(result[1].track.id))

\* C6: entries with the same liker count and the same lowercased title are in
\* the order in which their ids were first met.
C6_Stable ==
    Done => \A p, q \in 1..Len(result) :
                ( /\ p < q
                  /\ Len(result[p].artists) = Len(result[q].artists)
                  /\ LowerStr(result[p].track.title) = LowerStr(result[q].track.title) )
                => Before(FirstOccurrence(result[p].track.id),
                          FirstOccurrence(result[q].track.id))

\* a tie met in the order id 2, then id 1
C6_Witness ==
    /\ Done /\ Len(result) = 2
    /\ Len(result[1].artists) = Len(result[2].artists)
    /\ LowerStr(result[1].track.title) = LowerStr(result[2].track.title)
    /\ result[1].track.id = 2 /\ result[2].track.id = 1

\* C7: the Track of every entry is the first copy met in iteration order.
C7_FirstCopy ==
    Done => \A p \in 1..Len(result) :
                LET o == FirstOccurrence(result[p].track.id)
                IN  result[p].track = artist_likes[o[1]].tracks[o[2]]

C7_Witness ==
    /\ Done
    /\ \E p \in 1..Len(result) : \E o \in Occurrences(result[p].track.id) :
          artist_likes[o[1]].tracks[o[2]] # result[p].track

\* C8: the liker list holds every artist whose like list contains the id, and
\* no other name, in the iteration order of artist_likes.
C8_LikersInOrder ==
    Done => \A p \in 1..Len(result) :
                LET l == result[p].artists
                IN  /\ {l[a] : a \in 1..Len(l)} =
                          {artist_likes[i].name : i \in Likers(result[p].track.id)}
                    /\ \A a, b \in 1..Len(l) :
                          a < b => NameIndex(l[a]) <= NameIndex(l[b])

\* the liker list is <<"B", "A">>: iteration order, not alphabetical order
C8_Witness ==
    /\ Done
    /\ \E p \in 1..Len(result) : result[p].artists = <<"B", "A">>

\* C9: with min_artists = 1 and a non-empty mapping the returned ids are
\* exactly the ids that occur in some like list.
C9_MinOneAll ==
    (Done /\ min_artists = 1 /\ Len(artist_likes) > 0) => ResultIds = SeenIds

C9_Witness ==
    /\ Done /\ min_artists = 1 /\ Len(artist_likes) = 2
    /\ Cardinality(SeenIds) = 2 /\ Len(result) = 2
    /\ \E id \in SeenIds : Cardinality(Occurrences(id)) = 1

\* C10: for an empty mapping the result is empty, whatever min_artists is.
C10_EmptyInput ==
    (Done /\ Len(artist_likes) = 0) => result = <<>>

C10_Witness ==
    Done /\ Len(artist_likes) = 0 /\ min_artists = 0

\* C11: with exactly one artist the result is empty for every min_artists >= 2,
\* whatever the like list holds.
C11_OneArtistNothing ==
    (Done /\ Len(artist_likes) = 1 /\ min_artists >= 2) => result = <<>>

(***************************************************************************)
(* telegram_bot.py: process_soundcloud_url.  Each message is one coroutine *)
(* (a job).  Code between two awaits runs without interruption, so every   *)
(* action below is the code from one await to the next; an awaited call    *)
(* either returns or raises.  Jobs of any users interleave at the awaits.  *)
(*                                                                         *)
(* job_pc[j] names the await the coroutine is suspended at:                *)
(*   "idle"          the message has not arrived                           *)
(*   "reject_reply"  reply_text, line 224                                  *)
(*   "start_reply"   reply_text, line 232                                  *)
(*   "download"      download_audio, line 246                              *)
(*   "dl_reply"      reply_text, line 247                                  *)
(*   "identify"      identify_tracks, line 250                             *)
(*   "none_reply"    reply_text, line 253                                  *)
(*   "found_reply"   reply_text, line 259                                  *)
(*   "success_reply" reply_text, line 296                                  *)
(*   "error_reply"   reply_text, line 307                                  *)
(*   "done"          the coroutine has ended                               *)
(* job_did[j] lists, in order, what the job has started: "busy_reply" (the *)
(* reply of line 224), "download", "identify", "create" (create_playlist). *)
(***************************************************************************)
\* messages handled in one run
MaxJobs == 2

Jobs == 1..MaxJobs

BotUsers == {"u1", "u2"}

\* the awaits inside the try block
TryAwaits == {"start_reply", "download", "dl_reply", "identify",
              "none_reply", "found_reply", "success_reply"}

\* past the active_jobs check and not yet through the finally clause
Running == TryAwaits \cup {"error_reply"}

JobActiveNever(u) == FALSE

\* active_jobs.get(user_id)
JobActive(u) == u \in DOMAIN active_jobs /\ active_jobs[u]

SetActive(aj, u, v) ==
    [x \in DOMAIN aj \cup {u} |-> IF x = u THEN v ELSE aj[x]]

FinallySkipped(aj, u) == aj

\* finally: active_jobs[user_id] = False
Finally(aj, u) == SetActive(aj, u, FALSE)

RejectedThroughFinally(aj, u) == SetActive(aj, u, FALSE)

\* the return of line 227 is outside the try block: no finally clause runs
Rejected(aj, u) == aj

BotInit ==
    /\ active_jobs = <<>>
    /\ job_pc = [j \in Jobs |-> "idle"]
    /\ job_user = [j \in Jobs |-> "none"]
    /\ job_did = [j \in Jobs |-> <<>>]
    /\ FclOff
    /\ ExtOff
    /\ MainOff
    /\ CallsOff

Goto(j, where) == job_pc' = [job_pc EXCEPT ![j] = where]

Did(j, what) == job_did' = [job_did EXCEPT ![j] = Append(@, what)]

\* handle_message and process_soundcloud_url up to the first await:
\* lines 360-366 and 220-232
Arrive(j, u) ==
    /\ job_pc[j] = "idle"
    /\ job_user' = [job_user EXCEPT ![j] = u]
    /\ IF JobActive(u)
       THEN /\ Goto(j, "reject_reply")
            /\ Did(j, "busy_reply")
            /\ UNCHANGED active_jobs
       ELSE /\ active_jobs' = SetActive(active_jobs, u, TRUE)
            /\ Goto(j, "start_reply")
            /\ UNCHANGED job_did
    /\ UNCHANGED <<fclVars, mainVars, callVars, extVars>>

\* the reply of line 224 returns or raises, then return (line 227)
RejectReplied(j) ==
    /\ job_pc[j] = "reject_reply"
    /\ Goto(j, "done")
    /\ active_jobs' = Rejected(active_jobs, job_user[j])
    /\ UNCHANGED <<job_user, job_did>>
    /\ UNCHANGED <<fclVars, mainVars, callVars, extVars>>

\* the reply of line 232 returns; lines 238-246 start the download
StartReplied(j) ==
    /\ job_pc[j] = "start_reply"
    /\ Goto(j, "download")
    /\ Did(j, "download")
    /\ UNCHANGED <<active_jobs, job_user>>
    /\ UNCHANGED <<fclVars, mainVars, callVars, extVars>>

\* download_audio returns a path (line 246)
Downloaded(j) ==
    /\ job_pc[j] = "download"
    /\ Goto(j, "dl_reply")
    /\ UNCHANGED <<active_jobs, job_user, job_did>>
    /\ UNCHANGED <<fclVars, mainVars, callVars, extVars>>

\* the reply of line 247 returns; line 250 starts the identification
DownloadReplied(j) ==
    /\ job_pc[j] = "dl_reply"
    /\ Goto(j, "identify")
    /\ Did(j, "identify")
    /\ UNCHANGED <<active_jobs, job_user>>
    /\ UNCHANGED <<fclVars, mainVars, callVars, extVars>>

\* identify_tracks returns (line 250): no track, or some tracks
Identified(j, found) ==
    /\ job_pc[j] = "identify"
    /\ Goto(j, IF found THEN "found_reply" ELSE "none_reply")
    /\ UNCHANGED <<active_jobs, job_user, job_did>>
    /\ UNCHANGED <<fclVars, mainVars, callVars, extVars>>

\* the reply of line 253 returns; return (line 257) through the finally clause
NoneReplied(j) ==
    /\ job_pc[j] = "none_reply"
    /\ Goto(j, "done")
    /\ active_jobs' = Finally(active_jobs, job_user[j])
    /\ UNCHANGED <<job_user, job_did>>
    /\ UNCHANGED <<fclVars, mainVars, callVars, extVars>>

\* the reply of line 259 returns; lines 265-286 save the tracklist and create
\* the playlist without an await in between; either of them may raise
FoundReplied(j, outcome) ==
    /\ job_pc[j] = "found_reply"
    /\ outcome \in {"save_raises", "create_raises", "created"}
    /\ Goto(j, IF outcome = "created" THEN "success_reply" ELSE "error_reply")
    /\ IF outcome = "save_raises" THEN UNCHANGED job_did ELSE Did(j, "create")
    /\ UNCHANGED <<active_jobs, job_user>>
    /\ UNCHANGED <<fclVars, mainVars, callVars, extVars>>

\* the reply of line 296 returns; the try block ends, the finally clause runs
SuccessReplied(j) ==
    /\ job_pc[j] = "success_reply"
    /\ Goto(j, "done")
    /\ active_jobs' = Finally(active_jobs, job_user[j])
    /\ UNCHANGED <<job_user, job_did>>
    /\ UNCHANGED <<fclVars, mainVars, callVars, extVars>>

\* the await a job is suspended at inside the try block raises an Exception:
\* the handler of line 306 starts the error reply
Raised(j) ==
    /\ job_pc[j] \in TryAwaits
    /\ Goto(j, "error_reply")
    /\ UNCHANGED <<active_jobs, job_user, job_did>>
    /\ UNCHANGED <<fclVars, mainVars, callVars, extVars>>

\* the reply of line 307 returns or raises; the finally clause runs
ErrorReplied(j) ==
    /\ job_pc[j] = "error_reply"
    /\ Goto(j, "done")
    /\ active_jobs' = Finally(active_jobs, job_user[j])
    /\ UNCHANGED <<job_user, job_did>>
    /\ UNCHANGED <<fclVars, mainVars, callVars, extVars>>

\* the task is cancelled at an await after line 229 (CancelledError is no
\* Exception): only the finally clause runs
Cancelled(j) ==
    /\ job_pc[j] \in Running
    /\ Goto(j, "done")
    /\ active_jobs' = Finally(active_jobs, job_user[j])
    /\ UNCHANGED <<job_user, job_did>>
    /\ UNCHANGED <<fclVars, mainVars, callVars, extVars>>

\* an awaited call of job j completes
Resume(j) ==
    \/ RejectReplied(j)
    \/ StartReplied(j)
    \/ Downloaded(j)
    \/ DownloadReplied(j)
    \/ \E found \in BOOLEAN : Identified(j, found)
    \/ NoneReplied(j)
    \/ \E outcome \in {"save_raises", "create_raises", "created"} :
          FoundReplied(j, outcome)
    \/ SuccessReplied(j)
    \/ Raised(j)
    \/ ErrorReplied(j)
    \/ Cancelled(j)

BotNext ==
    \E j \in Jobs :
        \/ \E u \in BotUsers : Arrive(j, u)
        \/ Resume(j)

SpecBot == BotInit /\ [][BotNext]_vars

\* every awaited call eventually returns or raises
SpecBotFair == SpecBot /\ \A j \in Jobs : WF_vars(Resume(j))

RunningJobs(u) == {j \in Jobs : job_user[j] = u /\ job_pc[j] \in Running}

FlagSet(u) == u \in DOMAIN active_jobs /\ active_jobs[u] = TRUE

\* C17: at most one job of a user is past the active_jobs check at any time,
\* and a request that arrives while a job of its user is running gets the busy
\* reply and never starts a download, an identification or a playlist.
C17_OneJobPerUser ==
    /\ [](\A u \in BotUsers : Cardinality(RunningJobs(u)) <= 1)
    /\ [][\A j \in Jobs :
            (job_pc[j] = "idle" /\ job_pc'[j] # "idle" /\ RunningJobs(job_user'[j]) # {})
            => (job_pc'[j] = "reject_reply" /\ job_did'[j] = <<"busy_reply">>)]_vars
    /\ [](\A j \in Jobs :
            (Len(job_did[j]) > 0 /\ job_did[j][1] = "busy_reply")
            => (job_did[j] = <<"busy_reply">> /\ job_pc[j] \in {"reject_reply", "done"}))

\* a rejected request has ended while the job that blocked it is identifying
C17_Witness ==
    \E j, k \in Jobs :
        /\ j # k /\ job_user[j] = job_user[k]
        /\ job_pc[j] = "identify"
        /\ job_pc[k] = "done" /\ job_did[k] = <<"busy_reply">>

\* C18: every job that set the flag ends and clears it, on every exit path.
C18_FlagCleared ==
    /\ \A j \in Jobs : (job_pc[j] \in Running) ~> (job_pc[j] = "done")
    /\ [][\A j \in Jobs :
            (job_pc[j] \in Running /\ job_pc'[j] = "done")
            => (job_user[j] \in DOMAIN active_jobs' /\ active_jobs'[job_user[j]] = FALSE)]_vars

\* all jobs have ended: one after an exception in create_playlist, one after
\* no track was identified; no flag is left set
C18_Witness ==
    /\ \A j \in Jobs : job_pc[j] = "done"
    /\ \E j \in Jobs : job_did[j] = <<"download", "identify", "create">>
    /\ \E j \in Jobs : job_did[j] = <<"download", "identify">>
    /\ \A u \in BotUsers : ~FlagSet(u)

\* C19: a rejected request leaves active_jobs as it is, and the flag of a user
\* is True exactly when one job of that user is running.
C19_FlagIffRunning ==
    /\ [](\A u \in BotUsers : FlagSet(u) <=> Cardinality(RunningJobs(u)) = 1)
    /\ [][\A j \in Jobs :
            (job_pc[j] = "reject_reply" /\ job_pc'[j] # "reject_reply")
            => active_jobs' = active_jobs]_vars

\* a rejected request has ended and the flag of its user is still set
C19_Witness ==
    \E j \in Jobs :
        /\ job_pc[j] = "done" /\ job_did[j] = <<"busy_reply">>
        /\ FlagSet(job_user[j])
        /\ RunningJobs(job_user[j]) # {}

(***************************************************************************)
(* common_likes.py: main.  One action per stage of the script: the fetch   *)
(* of one artist (one round of the loop of line 237), the aggregation      *)
(* (lines 247-274), the JSON file (lines 277-293) and the Spotify playlist *)
(* (lines 296-331).  What get_artist_likes returns and whether Spotify     *)
(* finds a track are inputs.                                               *)
(***************************************************************************)
\* largest number of artist arguments on the command line
MaxUrls == 3

\* get_artist_likes returned None as the name
NoName == "None"

FetchedNames == {NamePool[i] : i \in 1..MaxArtists} \cup {NoName}

FetchedLists ==
    { <<>>,
      <<[id |-> 1, title |-> <<97>>]>>,
      <<[id |-> 2, title |-> <<66>>], [id |-> 1, title |-> <<97>>]>> }

\* --min-artists is any integer (type=int, lines 194-199)
MainMinArtists == (0 - 1)..MaxArtists

MainArgs ==
    [min_artists : MainMinArtists, n_urls : 1..MaxUrls,
     save_json : BOOLEAN, no_spotify : BOOLEAN, creds : BOOLEAN]

MainInit ==
    /\ main_pc = "fetch"
    /\ main_args \in MainArgs
    /\ main_next = 1
    /\ main_ok = {}
    /\ main_log = <<>>
    /\ artist_likes = <<>>
    /\ min_artists = 2
    /\ result = <<>>
    /\ pc = "ready"
    /\ BotOff
    /\ ExtOff
    /\ CallsOff

\* artist_likes[name] = tracks: a key already present keeps its place
DictSet(al, name, tracks) ==
    IF \E i \in 1..Len(al) : al[i].name = name
    THEN [i \in 1..Len(al) |->
            IF al[i].name = name THEN [al[i] EXCEPT !.tracks = tracks] ELSE al[i]]
    ELSE Append(al, [name |-> name, tracks |-> tracks])

\* if name and tracks
Fetched(name, tracks) == name # NoName /\ tracks # <<>>

TooFewArtistsOffByOne(al) == Len(al) < 1

\* if len(artist_likes) < 2
TooFewArtists(al) == Len(al) < 2

\* min_artists=args.min_artists
PassedMinArtists(args) == args.min_artists

\* one round of the loop of lines 237-245
Fetch(name, tracks) ==
    /\ main_pc = "fetch"
    /\ main_next <= main_args.n_urls
    /\ name = NoName => tracks = <<>>
    /\ artist_likes' = IF Fetched(name, tracks)
                       THEN DictSet(artist_likes, name, tracks)
                       ELSE artist_likes
    /\ main_ok' = IF name # NoName /\ Len(tracks) > 0
                  THEN main_ok \cup {name} ELSE main_ok
    /\ main_next' = main_next + 1
    /\ UNCHANGED <<min_artists, result, pc, main_pc, main_args, main_log>>
    /\ UNCHANGED <<botVars, callVars, extVars>>

\* lines 247-274: stop with fewer than 2 artists, else call find_common_likes
\* and stop when it returns nothing
Aggregate ==
    /\ main_pc = "fetch"
    /\ main_next > main_args.n_urls
    /\ IF TooFewArtists(artist_likes)
       THEN /\ main_pc' = "done"
            /\ UNCHANGED <<min_artists, result, pc, main_log>>
       ELSE /\ min_artists' = PassedMinArtists(main_args)
            /\ result' = find_common_likes(artist_likes, min_artists')
            /\ pc' = "done"
            /\ main_log' = Append(main_log, "find_common_likes")
            /\ main_pc' = IF result' = <<>> THEN "done" ELSE "save_json"
    /\ UNCHANGED <<artist_likes, main_args, main_next, main_ok>>
    /\ UNCHANGED <<botVars, callVars, extVars>>

\* lines 277-293
SaveJson ==
    /\ main_pc = "save_json"
    /\ main_log' = IF main_args.save_json THEN Append(main_log, "json")
                   ELSE main_log
    /\ main_pc' = "spotify"
    /\ UNCHANGED <<fclVars, main_args, main_next, main_ok>>
    /\ UNCHANGED <<botVars, callVars, extVars>>

\* lines 296-331: the searches, and the playlist when a track was found
Spotify(found) ==
    /\ main_pc = "spotify"
    /\ main_log' =
         IF main_args.no_spotify \/ ~main_args.creds THEN main_log
         ELSE IF found THEN main_log \o <<"spotify_search", "spotify_create">>
         ELSE Append(main_log, "spotify_search")
    /\ main_pc' = "done"
    /\ UNCHANGED <<fclVars, main_args, main_next, main_ok>>
    /\ UNCHANGED <<botVars, callVars, extVars>>

MainNext ==
    \/ \E name \in FetchedNames : \E tracks \in FetchedLists : Fetch(name, tracks)
    \/ Aggregate
    \/ SaveJson
    \/ \E found \in BOOLEAN : Spotify(found)

SpecMain == MainInit /\ [][MainNext]_vars

\* C16: whatever --min-artists is, main calls find_common_likes with
\* min_artists >= 1.
C16_Clamped ==
    (main_pc # "off" /\ pc = "done") => min_artists >= 1

Logged(what) == \E i \in 1..Len(main_log) : main_log[i] = what

\* C20: find_common_likes is called only with at least 2 distinct artist
\* names that came with a non-empty like list; with fewer, main ends without
\* the call, without a JSON file and without a Spotify call.
C20_NeedsTwoArtists ==
    /\ (pc = "done" \/ Logged("find_common_likes")) => Cardinality(main_ok) >= 2
    /\ (main_pc \in {"fetch", "done"} /\ main_next > 0 /\ Cardinality(main_ok) < 2)
          => (main_log = <<>> /\ pc = "ready" /\ result = <<>>)

\* three urls were fetched, two of them gave the same name and one gave no
\* likes: main has stopped without any call
C20_Witness ==
    /\ main_pc = "done" /\ main_next = 4
    /\ Cardinality(main_ok) = 1 /\ Len(artist_likes) = 1
    /\ main_log = <<>> /\ pc = "ready"
    /\ main_args.save_json /\ ~main_args.no_spotify /\ main_args.creds

(***************************************************************************)
(* Repeated calls of find_common_likes on one mapping.  The dict built by  *)
(* a call is kept in track_to_artists after the call returns: Python drops *)
(* it, and line 80 binds a new empty dict at every call.                   *)
(***************************************************************************)
\* largest total number of likes in the mappings called repeatedly
MaxCallLikes == 2

\* the keys are the first k names of the pool, in that order
CallNameOrders == {[i \in 1..k |-> NamePool[i]] : k \in 0..MaxArtists}

CallFlatLikes(ns, S) == IF Len(ns) = 0 THEN {<<>>} ELSE SeqsUpTo(S, MaxCallLikes)

CallsInit ==
    /\ \E ns \in CallNameOrders : \E flat \in CallFlatLikes(ns, Tracks) :
          \E f \in Owners(Len(flat), Len(ns)) :
             artist_likes = MakeArtistLikes(ns, flat, f)
    /\ min_artists = 2
    /\ result = <<>>
    /\ pc = "ready"
    /\ CallsOff
    /\ BotOff
    /\ ExtOff
    /\ MainOff

\* f with x mapped to v
With(f, x, v) == [y \in DOMAIN f \cup {x} |-> IF y = x THEN v ELSE f[y]]

\* one more call, with threshold m
CallAgain(m) ==
    /\ min_artists' = m
    /\ track_to_artists' = TrackToArtists(artist_likes)
    /\ result' = find_common_likes(artist_likes, m)
    /\ pc' = "done"
    /\ returned' = IF m \in DOMAIN returned THEN returned
                   ELSE With(returned, m, result')
    /\ repeated' = (repeated \/ (m \in DOMAIN returned /\ m # min_artists))
    /\ UNCHANGED <<artist_likes, heap, result_refs, error>>
    /\ UNCHANGED <<botVars, mainVars, extVars>>

CallsNext == \E m \in MinArtistsValues : CallAgain(m)

SpecCalls == CallsInit /\ [][CallsNext]_vars

HeapNewEntry(st, track) ==
    [map  |-> Append(st.map, [key |-> track.id, track |-> track,
                              ref |-> Len(st.heap) + 1]),
     heap |-> Append(st.heap, <<>>)]

RefOf(map, id) == (CHOOSE p \in 1..Len(map) : map[p].key = id)

\* track_to_artists[track.id][1].append(artist_name): the list object is
\* changed in place
HeapAppendArtist(st, id, artist_name) ==
    LET a == st.map[RefOf(st.map, id)].ref
    IN  [st EXCEPT !.heap = [st.heap EXCEPT ![a] = Append(@, artist_name)]]

HeapAddLike(st, artist_name, track) ==
    LET s1 == IF ~HasKey(st.map, track.id) THEN HeapNewEntry(st, track) ELSE st
    IN  HeapAppendArtist(s1, track.id, artist_name)

RECURSIVE HeapLoop(_, _, _, _)
\* the iteration reads the list object at address cur, element by element
HeapLoop(st, artist_name, cur, j) ==
    IF j > Len(st.heap[cur]) THEN st
    ELSE HeapLoop(HeapAddLike(st, artist_name, st.heap[cur][j]),
                  artist_name, cur, j + 1)

HeapAddLikesDraining(st, artist_name, cur) ==
    LET s1 == HeapLoop(st, artist_name, cur, 1)
    IN  [s1 EXCEPT !.heap = [s1.heap EXCEPT ![cur] = <<>>]]

\* for track in tracks: ...
HeapAddLikes(st, artist_name, cur) == HeapLoop(st, artist_name, cur, 1)

RECURSIVE HeapAddArtists(_, _, _)
\* for artist_name, tracks in artist_likes.items(): ...
HeapAddArtists(st, al, i) ==
    IF i > Len(al) THEN st
    ELSE HeapAddArtists(HeapAddLikes(st, al[i].name, i), al, i + 1)

\* the values of track_to_artists, each liker list read from its object
HeapValues(st) ==
    [p \in 1..Len(st.map) |->
        [key |-> st.map[p].key, track |-> st.map[p].track,
         artists |-> st.heap[st.map[p].ref], ref |-> st.map[p].ref]]

\* the like lists as objects, at the addresses 1..Len(al)
InputHeap(al) == [i \in 1..Len(al) |-> al[i].tracks]

HeapInit ==
    /\ \E ns \in CallNameOrders : \E flat \in CallFlatLikes(ns, Tracks) :
          \E f \in Owners(Len(flat), Len(ns)) :
             artist_likes = MakeArtistLikes(ns, flat, f)
    /\ min_artists = 2
    /\ result = <<>>
    /\ pc = "ready"
    /\ track_to_artists = <<>>
    /\ returned = <<>>
    /\ repeated = FALSE
    /\ heap = InputHeap(artist_likes)
    /\ result_refs = <<>>
    /\ error = "none"
    /\ BotOff
    /\ ExtOff
    /\ MainOff

\* the call, with its effect on the list objects
HeapCall(m) ==
    /\ pc = "ready"
    /\ LET st     == HeapAddArtists([map |-> EmptyMap, heap |-> heap],
                                    artist_likes, 1)
           sorted == SortCommon(Common(HeapValues(st), m))
       IN  /\ heap' = st.heap
           /\ track_to_artists' = st.map
           /\ result' = [p \in 1..Len(sorted) |->
                           [track |-> sorted[p].track, artists |-> sorted[p].artists]]
           /\ result_refs' = [p \in 1..Len(sorted) |-> sorted[p].ref]
           /\ artist_likes' = [i \in 1..Len(artist_likes) |->
                                 [name |-> artist_likes[i].name, tracks |-> st.heap[i]]]
    /\ min_artists' = m
    /\ pc' = "done"
    /\ UNCHANGED <<returned, repeated, error>>
    /\ UNCHANGED <<botVars, mainVars, extVars>>

HeapNext == \E m \in MinArtistsValues : HeapCall(m)

SpecHeap == HeapInit /\ [][HeapNext]_vars

\* the call on list objects returns what find_common_likes computes
HeapModelAgrees ==
    pc = "done" => result = find_common_likes(artist_likes, min_artists)

\* C13: the call leaves artist_likes as it was (same keys in the same order,
\* same tracks in the same order in every like list), and every liker list
\* returned is a new object, none of the like lists.
C13_InputUnchanged ==
    /\ [][artist_likes' = artist_likes]_vars
    /\ [](pc = "done" =>
            /\ \A i \in 1..Len(artist_likes) : heap[i] = artist_likes[i].tracks
            /\ \A p \in 1..Len(result_refs) :
                  /\ result_refs[p] > Len(artist_likes)
                  /\ heap[result_refs[p]] = result[p].artists
            /\ \A p, q \in 1..Len(result_refs) :
                  p # q => result_refs[p] # result_refs[q])

\* two artists like the returned track
C13_Witness ==
    /\ pc = "done" /\ Len(artist_likes) = 2 /\ Len(heap) > 2
    /\ Len(result) >= 1 /\ Len(result[1].artists) = 2
    /\ result_refs[1] = 3

(***************************************************************************)
(* find_common_likes on mappings that may hold malformed tracks: a Track   *)
(* whose id is None, or whose title is None.  None is hashable, so line 84 *)
(* accepts it as a key; None has no lower(), so the key function of line   *)
(* 96 raises AttributeError on every element of common with such a title.  *)
(***************************************************************************)
\* stands for an id that is None
NoneId == 0

\* stands for a title that is None
NoneTitle == <<0>>

TracksAny == [id : (1..MaxId) \cup {NoneId}, title : Titles \cup {NoneTitle}]

SortRaisesOnTies(common) ==
    \/ \E p \in 1..Len(common) : common[p].track.title = NoneTitle
    \/ \E p, q \in 1..Len(common) : p # q /\ SortKey(common[p]) = SortKey(common[q])

\* x[0].title.lower() raises for an element of common
SortRaises(common) ==
    \E p \in 1..Len(common) : common[p].track.title = NoneTitle

TotalInit ==
    /\ \E ns \in CallNameOrders : \E flat \in CallFlatLikes(ns, TracksAny) :
          \E f \in Owners(Len(flat), Len(ns)) :
             artist_likes = MakeArtistLikes(ns, flat, f)
    /\ min_artists = 2
    /\ result = <<>>
    /\ pc = "ready"
    /\ CallsOff
    /\ BotOff
    /\ ExtOff
    /\ MainOff

\* the call: it returns, or line 96 raises
TotalCall(m) ==
    /\ pc = "ready"
    /\ min_artists' = m
    /\ IF SortRaises(Common(TrackToArtists(artist_likes), m))
       THEN /\ error' = "AttributeError"
            /\ UNCHANGED result
       ELSE /\ error' = "none"
            /\ result' = find_common_likes(artist_likes, m)
    /\ pc' = "done"
    /\ UNCHANGED <<artist_likes, track_to_artists, returned, repeated, heap,
                   result_refs>>
    /\ UNCHANGED <<botVars, mainVars, extVars>>

TotalNext == \E m \in MinArtistsValues : TotalCall(m)

SpecTotal == TotalInit /\ [][TotalNext]_vars

\* a call that was made runs to its end
SpecTotalFair == SpecTotal /\ WF_vars(TotalNext)

AllLikes ==
    {artist_likes[i].tracks[j] :
        <<i, j>> \in {x \in ArtistIdx \X (1..MaxLikes) : x[2] \in LikePos(x[1])}}

WellFormed == \A t \in AllLikes : t.id # NoneId /\ t.title # NoneTitle

\* C14: on a well-formed mapping the call ends, and with min_artists >= 1 it
\* returns without raising.
C14_Total ==
    /\ (pc = "ready" /\ WellFormed) ~> (pc = "done")
    /\ []((pc = "done" /\ WellFormed /\ min_artists >= 1) => error = "none")

\* two tracks with the same count and the same lowercased title were returned
C14_Witness ==
    /\ pc = "done" /\ WellFormed /\ min_artists >= 1 /\ error = "none"
    /\ Len(result) = 2
    /\ Len(result[1].artists) = Len(result[2].artists)
    /\ LowerStr(result[1].track.title) = LowerStr(result[2].track.title)

\* C15: with a Track whose id is None in a like list, the call fails with an
\* error.
C15_NullIdFails ==
    (pc = "done" /\ \E t \in AllLikes : t.id = NoneId) => error # "none"

(***************************************************************************)
(* The segment walk: SoundCloudToSpotify.identify_tracks with              *)
(* identify_segment ("class"), the analyze-only loop written out in main   *)
(* of soundcloud_to_spotify.py ("inline") and identify_tracks of           *)
(* telegram_bot.py ("bot").  A walk is suspended at the while test         *)
(* ("loop"), in the progress reply of the bot, in a recogniser call        *)
(* ("recognize") or in the sleep after a failed attempt; it ends by        *)
(* returning ("done") or with an exception that leaves it ("failed").      *)
(* Walks present together are given the same outcome for the same attempt. *)
(***************************************************************************)
\* milliseconds per second
Seconds == 1000

\* largest --segment-duration and --segment-step tried, in seconds
MaxSeconds == 2

\* longest audio tried, in half seconds (in 22.5 s for the bot)
MaxHalves == 5

CliSeconds == (0 - 1)..MaxSeconds

CliDurations == {k * (Seconds \div 2) : k \in 0..MaxHalves}

BotSegmentDuration == 20 * Seconds

BotSegmentStep == 45 * Seconds

BotDurations == {(k * BotSegmentStep) \div 2 : k \in 0..MaxHalves}

\* positions below this one are not followed (a negative step never ends)
MinPosition == 0 - 2 * Seconds

\* what the recogniser returns: titles and artists as character codes
RecognisedTracks ==
    { [title |-> <<65>>, artist |-> <<120>>],
      [title |-> <<97>>, artist |-> <<88>>],
      [title |-> <<98>>, artist |-> <<120>>] }

NoTrack == [title |-> <<>>, artist |-> <<>>]

Outcomes ==
    [kind : {"match"}, track : RecognisedTracks]
        \cup [kind : {"no_match", "timeout", "error"}, track : {NoTrack}]

Runs == DOMAIN walk_pc

\* retries of identify_segment
Retries == 2

AttemptsFour(r) == 4

\* range(retries + 1), range(3)
Attempts(r) == IF r = "class" THEN Retries + 1 ELSE 3

TrackKeyRaw(t) == <<t.title, t.artist>>

\* (title.lower(), artist.lower())
TrackKey(t) == <<LowerStr(t.title), LowerStr(t.artist)>>

\* position + segment_duration <= duration_ms
InAudio(r) == position[r] + segment_duration <= duration_ms

\* int(progress_pct // 20)
Progress(r) == (position[r] * 5) \div duration_ms

UnlinkNothing(files, f) == files

\* os.unlink(tmp_path)
Unlink(files, f) == files \ {f}

WalkStart(rs) ==
    /\ walk_pc = [r \in rs |-> "loop"]
    /\ position = [r \in rs |-> 0]
    /\ attempt = [r \in rs |-> 0]
    /\ identified_tracks = [r \in rs |-> <<>>]
    /\ seen_tracks = [r \in rs |-> {}]
    /\ tmp_files = [r \in rs |-> {}]
    /\ recognised = [r \in rs |-> {}]
    /\ last_outcome = [r \in rs |-> "none"]
    /\ last_update = [r \in rs |-> 0]

\* the settings of the command line, or the fixed ones of the bot
WalkArgs(rs) ==
    IF "bot" \in rs
    THEN /\ duration_ms \in BotDurations
         /\ segment_duration = BotSegmentDuration
         /\ segment_step = BotSegmentStep
    ELSE /\ duration_ms \in CliDurations
         /\ segment_duration \in {s * Seconds : s \in CliSeconds}
         /\ segment_step \in {s * Seconds : s \in CliSeconds}

WalkInit ==
    /\ \E r \in {"class", "inline", "bot"} : WalkArgs({r}) /\ WalkStart({r})
    /\ FclOff
    /\ BotOff
    /\ MainOff
    /\ CallsOff
    /\ BatchOff
    /\ FetchOff
    /\ ConvOff

\* the loop variables of walk r
Run(r) ==
    [pc |-> walk_pc[r], position |-> position[r], attempt |-> attempt[r],
     identified_tracks |-> identified_tracks[r], seen_tracks |-> seen_tracks[r],
     tmp_files |-> tmp_files[r], recognised |-> recognised[r],
     last_outcome |-> last_outcome[r], last_update |-> last_update[r]]

\* every walk in rs takes its step to[r]; the other walks and the settings
\* stay
Steps(rs, to) ==
    /\ rs # {}
    /\ walk_pc' = [r \in Runs |-> IF r \in rs THEN to[r].pc ELSE walk_pc[r]]
    /\ position' = [r \in Runs |-> IF r \in rs THEN to[r].position ELSE position[r]]
    /\ attempt' = [r \in Runs |-> IF r \in rs THEN to[r].attempt ELSE attempt[r]]
    /\ identified_tracks' =
          [r \in Runs |-> IF r \in rs THEN to[r].identified_tracks
                          ELSE identified_tracks[r]]
    /\ seen_tracks' =
          [r \in Runs |-> IF r \in rs THEN to[r].seen_tracks ELSE seen_tracks[r]]
    /\ tmp_files' = [r \in Runs |-> IF r \in rs THEN to[r].tmp_files ELSE tmp_files[r]]
    /\ recognised' =
          [r \in Runs |-> IF r \in rs THEN to[r].recognised ELSE recognised[r]]
    /\ last_outcome' =
          [r \in Runs |-> IF r \in rs THEN to[r].last_outcome ELSE last_outcome[r]]
    /\ last_update' =
          [r \in Runs |-> IF r \in rs THEN to[r].last_update ELSE last_update[r]]
    /\ UNCHANGED <<duration_ms, segment_duration, segment_step>>
    /\ UNCHANGED <<coreVars, batchVars, fetchVars, convVars>>

\* the segment is exported to a temporary file and the first recogniser
\* call is started
Export(r) ==
    [Run(r) EXCEPT !.tmp_files = @ \cup {position[r]}, !.attempt = 0,
                   !.last_outcome = "none", !.pc = "recognize"]

\* the while test and the code up to the next await
Loop(r) ==
    IF ~InAudio(r) THEN [Run(r) EXCEPT !.pc = "done"]
    ELSE IF duration_ms = 0 THEN [Run(r) EXCEPT !.pc = "failed"]
    ELSE IF r = "bot" /\ Progress(r) > last_update[r]
         THEN [Run(r) EXCEPT !.last_update = Progress(r), !.pc = "progress_reply"]
    ELSE Export(r)

\* the finally clause, then position += segment_step
EndSegment(w, r) ==
    [w EXCEPT !.tmp_files = Unlink(@, position[r]),
              !.position = @ + segment_step, !.pc = "loop"]

\* an exception leaves the try block and the walk
Propagate(w, r) ==
    [w EXCEPT !.tmp_files = Unlink(@, position[r]), !.pc = "failed"]

\* the next turn of the for loop over the attempts
NextAttempt(w, r) ==
    IF attempt[r] + 1 < Attempts(r)
    THEN [w EXCEPT !.attempt = @ + 1, !.pc = "recognize"]
    ELSE EndSegment(w, r)

\* a recognised track: kept unless its key was seen
Keep(w, r, t) ==
    LET entry == [title |-> t.title, artist |-> t.artist,
                  timestamp_seconds |-> position[r] \div Seconds]
        found == [w EXCEPT !.recognised = @ \cup {entry}]
    IN  IF TrackKey(t) \notin seen_tracks[r]
        THEN [found EXCEPT !.seen_tracks = @ \cup {TrackKey(t)},
                           !.identified_tracks = Append(@, entry)]
        ELSE found

\* the recogniser call of walk r ends with outcome o
Recognize(r, o) ==
    LET w == [Run(r) EXCEPT !.last_outcome = o.kind]
    IN  CASE o.kind = "match" -> EndSegment(Keep(w, r, o.track), r)
          [] o.kind = "no_match" -> EndSegment(w, r)
          [] o.kind = "timeout" ->
                IF attempt[r] < 2 THEN [w EXCEPT !.pc = "sleep3"]
                ELSE NextAttempt(w, r)
          [] o.kind = "error" ->
                IF r # "class" THEN Propagate(w, r)
                ELSE IF attempt[r] < Retries THEN [w EXCEPT !.pc = "sleep2"]
                ELSE NextAttempt(w, r)

AtLoop(r) == walk_pc[r] = "loop" /\ position[r] >= MinPosition

AtReply(r) == walk_pc[r] = "progress_reply"

AtRecognize(r) == walk_pc[r] = "recognize"

AtSleep(r) == walk_pc[r] \in {"sleep2", "sleep3"}

\* the while test: the walk returns, fails, or goes on to its next await
WalkLoop ==
    Steps({r \in Runs : AtLoop(r)}, [r \in Runs |-> Loop(r)])

\* the progress reply of the bot returns
ProgressReplied ==
    Steps({r \in Runs : AtReply(r)}, [r \in Runs |-> Export(r)])

\* the progress reply of the bot raises
ProgressRaised ==
    Steps({r \in Runs : AtReply(r)},
          [r \in Runs |-> [Run(r) EXCEPT !.pc = "failed"]])

\* the recogniser calls under way end with outcome o
Recognised(o) ==
    Steps({r \in Runs : AtRecognize(r)}, [r \in Runs |-> Recognize(r, o)])

\* asyncio.sleep returns
Slept ==
    Steps({r \in Runs : AtSleep(r)}, [r \in Runs |-> NextAttempt(Run(r), r)])

WalkNext ==
    \/ WalkLoop
    \/ ProgressReplied
    \/ ProgressRaised
    \/ \E o \in Outcomes : Recognised(o)
    \/ Slept

SpecWalk == WalkInit /\ [][WalkNext]_vars

\* every await of the walk ends: the recogniser call is bounded by
\* wait_for(timeout=15.0), the sleeps are fixed
SpecWalkFair == SpecWalk /\ WF_vars(WalkNext)

\* the analyze-only loop of main and identify_tracks of the class, walking
\* the same audio with the same settings and the same outcome per attempt
TwinInit ==
    /\ WalkArgs({"class", "inline"})
    /\ WalkStart({"class", "inline"})
    /\ FclOff
    /\ BotOff
    /\ MainOff
    /\ CallsOff
    /\ BatchOff
    /\ FetchOff
    /\ ConvOff

\* neither walk is the bot's: no progress reply
TwinNext ==
    \/ WalkLoop
    \/ \E o \in Outcomes : Recognised(o)
    \/ Slept

SpecTwin == TwinInit /\ [][TwinNext]_vars

\* the recogniser call of walk r ends in this step with an outcome of kind k
CallEnds(r, k) == walk_pc[r] = "recognize" /\ last_outcome'[r] = k

\* the segment of walk r ends in this step and the walk goes on
NextSegment(r) ==
    /\ walk_pc'[r] = "loop"
    /\ position'[r] = position[r] + segment_step

\* C21: a segment sees at most 3 recogniser calls; a call that returns ends
\* the segment at once; a timeout other than the third is followed by the
\* 3-second sleep and then the next call; the third timeout ends the segment
\* with no track and the walk goes on with the next segment.
C21_Retries ==
    /\ [](\A r \in Runs : walk_pc[r] = "recognize" => attempt[r] < 3)
    /\ [][\A r \in Runs :
            /\ (walk_pc[r] # "recognize" /\ walk_pc'[r] = "recognize") =>
                  attempt'[r] = IF AtSleep(r) THEN attempt[r] + 1 ELSE 0
            /\ (CallEnds(r, "match") \/ CallEnds(r, "no_match")) => NextSegment(r)
            /\ (CallEnds(r, "timeout") /\ attempt[r] < 2) => walk_pc'[r] = "sleep3"
            /\ walk_pc[r] = "sleep3" =>
                  (walk_pc'[r] = "recognize" /\ position'[r] = position[r])
            /\ (CallEnds(r, "timeout") /\ attempt[r] = 2) =>
                  (NextSegment(r) /\ identified_tracks'[r] = identified_tracks[r])
         ]_vars

\* a walk went on to its second segment after three timeouts
C21_Witness ==
    \E r \in Runs :
        /\ walk_pc[r] = "loop" /\ position[r] > 0
        /\ last_outcome[r] = "timeout" /\ attempt[r] = 2

\* C22: the walk ends for every audio length and every setting the command
\* line accepts.
C22_Terminates == <>(\A r \in Runs : walk_pc[r] \in {"done", "failed"})

KeyOf(e) == <<LowerStr(e.title), LowerStr(e.artist)>>

\* C23: the returned list holds no key twice; its keys are the keys
\* recognised; each entry is the earliest recognition of its key; the list is
\* in the order of the first recognitions.
C23_NoDuplicates ==
    \A r \in Runs :
        LET l == identified_tracks[r]
        IN  /\ \A p, q \in 1..Len(l) : KeyOf(l[p]) = KeyOf(l[q]) => p = q
            /\ walk_pc[r] = "done" =>
                  /\ {KeyOf(l[p]) : p \in 1..Len(l)} = {KeyOf(e) : e \in recognised[r]}
                  /\ \A p \in 1..Len(l) :
                        /\ l[p] \in recognised[r]
                        /\ \A e \in recognised[r] :
                              KeyOf(e) = KeyOf(l[p]) =>
                                 l[p].timestamp_seconds <= e.timestamp_seconds
                  /\ \A p, q \in 1..Len(l) :
                        p < q => l[p].timestamp_seconds < l[q].timestamp_seconds

\* a returned list of two tracks, one of them recognised again later under
\* another spelling
C23_Witness ==
    \E r \in Runs :
        /\ walk_pc[r] = "done"
        /\ Len(identified_tracks[r]) = 2
        /\ \E e \in recognised[r] :
              /\ KeyOf(e) = KeyOf(identified_tracks[r][1])
              /\ e.title # identified_tracks[r][1].title

\* C24: with the same audio, settings and outcomes the analyze-only loop of
\* main produces the list identify_tracks of the class produces.
C24_SameList ==
    walk_pc["class"] = "done" =>
        /\ walk_pc["inline"] = "done"
        /\ identified_tracks["inline"] = identified_tracks["class"]

\* C25: the temporary file of a segment is gone when the walk is at the
\* while test again, has returned or has failed; while the segment is being
\* recognised its file is the only one.
C25_TempFilesDeleted ==
    \A r \in Runs :
        IF walk_pc[r] \in {"recognize", "sleep2", "sleep3"}
        THEN tmp_files[r] = {position[r]}
        ELSE tmp_files[r] = {}

\* a walk ended by an exception of the recogniser in a later segment
C25_Witness ==
    \E r \in Runs :
        /\ walk_pc[r] = "failed" /\ last_outcome[r] = "error"
        /\ position[r] > 0 /\ tmp_files[r] = {}

(***************************************************************************)
(* The batch loops that add the uris to a playlist: create_playlist of     *)
(* common_likes.py and of telegram_bot.py, create_spotify_playlist of      *)
(* soundcloud_to_spotify.py and of discogs_to_spotify.py.  A uri is named  *)
(* by its place in the list.                                               *)
(***************************************************************************)
\* longest uri list tried
MaxUris == 201

\* the step of range(0, len(uris), 100) and the length of the slice
BatchSize == 100

BatchSites == {"common_likes", "soundcloud", "telegram", "discogs"}

\* the loop is under `if uris:` everywhere but in discogs_to_spotify.py
Guarded(site) == site # "discogs"

SliceOneMore(l, i) ==
    SubSeq(l, i + 1, IF i + BatchSize + 1 < Len(l) THEN i + BatchSize + 1 ELSE Len(l))

\* uris[i:i + 100]
Slice(l, i) ==
    SubSeq(l, i + 1, IF i + BatchSize < Len(l) THEN i + BatchSize ELSE Len(l))

BatchInit ==
    /\ \E n \in 0..MaxUris : uris = [k \in 1..n |-> k]
    /\ batch_site \in BatchSites
    /\ batches = <<>>
    /\ batch_i = 0
    /\ batch_pc = "start"
    /\ FclOff
    /\ BotOff
    /\ MainOff
    /\ CallsOff
    /\ WalkOff
    /\ FetchOff
    /\ ConvOff

\* `if uris:` and the start of the range
EnterLoop ==
    /\ batch_pc = "start"
    /\ batch_pc' = IF Guarded(batch_site) /\ uris = <<>> THEN "done" ELSE "loop"
    /\ UNCHANGED <<uris, batches, batch_i, batch_site>>
    /\ UNCHANGED <<coreVars, walkVars, fetchVars, convVars>>

\* one turn of the loop: playlist_add_items(playlist_id, batch) returns
AddItems ==
    /\ batch_pc = "loop"
    /\ batch_i < Len(uris)
    /\ batches' = Append(batches, Slice(uris, batch_i))
    /\ batch_i' = batch_i + BatchSize
    /\ UNCHANGED <<uris, batch_pc, batch_site>>
    /\ UNCHANGED <<coreVars, walkVars, fetchVars, convVars>>

\* playlist_add_items raises: the exception leaves the function
AddItemsRaises ==
    /\ batch_pc = "loop"
    /\ batch_i < Len(uris)
    /\ batch_pc' = "failed"
    /\ UNCHANGED <<uris, batches, batch_i, batch_site>>
    /\ UNCHANGED <<coreVars, walkVars, fetchVars, convVars>>

\* the range is used up
LeaveLoop ==
    /\ batch_pc = "loop"
    /\ batch_i >= Len(uris)
    /\ batch_pc' = "done"
    /\ UNCHANGED <<uris, batches, batch_i, batch_site>>
    /\ UNCHANGED <<coreVars, walkVars, fetchVars, convVars>>

BatchNext == EnterLoop \/ AddItems \/ AddItemsRaises \/ LeaveLoop

SpecBatch == BatchInit /\ [][BatchNext]_vars

RECURSIVE Concat(_)
Concat(ls) == IF ls = <<>> THEN <<>> ELSE Head(ls) \o Concat(Tail(ls))

\* C26: n uris are added by ceil(n / 100) calls of 1 to 100 uris each, whose
\* batches put end to end are the uri list; no call for n = 0.
C26_Batches ==
    /\ \A b \in 1..Len(batches) : Len(batches[b]) \in 1..100
    /\ Concat(batches) = SubSeq(uris, 1, Len(Concat(batches)))
    /\ batch_pc = "done" =>
          /\ Len(batches) = (Len(uris) + 99) \div 100
          /\ Concat(batches) = uris
          /\ uris = <<>> => batches = <<>>

\* three calls were made, the last one with a single uri
C26_Witness ==
    /\ batch_pc = "done"
    /\ Len(batches) = 3
    /\ Len(batches[3]) = 1

(***************************************************************************)
(* The fetch loop of main of common_likes.py with get_artist_likes run     *)
(* step by step: resolving the url, one turn of the loop over the likes    *)
(* per like the generator yields, the return, and main storing the result. *)
(* The user of the k-th url is named NamePool[k]; a like is a playlist or  *)
(* carries a track.                                                        *)
(***************************************************************************)
\* artist urls on the command line
MaxFetchUrls == 2

\* likes a generator yields at most
MaxStream == 3

\* largest --limit tried
MaxLimit == 2

Likes == {"playlist", "t1", "t2"}

\* hasattr(like, 'track') and like.track
HasTrack(like) == like # "playlist"

LimitReachedLate(tracks, limit) == Len(tracks) > limit

\* len(tracks) >= limit
LimitReached(tracks, limit) == Len(tracks) >= limit

ExceptReturnPartial(name, tracks) == [name |-> name, tracks |-> tracks]

\* the except clause: return None, []
ExceptReturn(name, tracks) == [name |-> NoName, tracks |-> <<>>]

FetchInit ==
    /\ fetch_limit \in (0 - 1)..MaxLimit
    /\ fetch_next = 1
    /\ gal_pc = "call"
    /\ gal_tracks = <<>>
    /\ gal_stream = <<>>
    /\ gal_ret = <<>>
    /\ fetch_likes = <<>>
    /\ fetch_failed = {}
    /\ FclOff
    /\ BotOff
    /\ MainOff
    /\ CallsOff
    /\ WalkOff
    /\ BatchOff
    /\ ConvOff

FetchFrame == UNCHANGED <<coreVars, walkVars, batchVars, convVars>>

\* get_artist_likes returns value
Return(value) ==
    /\ gal_ret' = value
    /\ gal_pc' = "return"

\* sc.resolve(artist_url) returns a user
Resolved ==
    /\ gal_pc = "call"
    /\ gal_pc' = "likes"
    /\ gal_tracks' = <<>>
    /\ gal_stream' = <<>>
    /\ UNCHANGED <<fetch_limit, fetch_next, gal_ret, fetch_likes, fetch_failed>>
    /\ FetchFrame

\* sc.resolve returns nothing: return None, []
NotResolved ==
    /\ gal_pc = "call"
    /\ Return([name |-> NoName, tracks |-> <<>>])
    /\ gal_tracks' = <<>>
    /\ gal_stream' = <<>>
    /\ UNCHANGED <<fetch_limit, fetch_next, fetch_likes, fetch_failed>>
    /\ FetchFrame

\* the generator yields a like: one turn of the loop
NextLike(like) ==
    /\ gal_pc = "likes"
    /\ Len(gal_stream) < MaxStream
    /\ gal_stream' = Append(gal_stream, like)
    /\ IF LimitReached(gal_tracks, fetch_limit)
       THEN /\ Return([name |-> NamePool[fetch_next], tracks |-> gal_tracks])
            /\ UNCHANGED gal_tracks
       ELSE /\ gal_tracks' = IF HasTrack(like) THEN Append(gal_tracks, like)
                                               ELSE gal_tracks
            /\ UNCHANGED <<gal_pc, gal_ret>>
    /\ UNCHANGED <<fetch_limit, fetch_next, fetch_likes, fetch_failed>>
    /\ FetchFrame

\* the generator is used up: return username, tracks
LikesEnd ==
    /\ gal_pc = "likes"
    /\ Return([name |-> NamePool[fetch_next], tracks |-> gal_tracks])
    /\ UNCHANGED <<fetch_limit, fetch_next, gal_tracks, gal_stream, fetch_likes,
                   fetch_failed>>
    /\ FetchFrame

\* resolving, or fetching or reading a like, raises: the except clause
FetchRaises ==
    /\ gal_pc \in {"call", "likes"}
    /\ Return(ExceptReturn(NamePool[fetch_next],
                      IF gal_pc = "call" THEN <<>> ELSE gal_tracks))
    /\ fetch_failed' = fetch_failed \cup {fetch_next}
    /\ gal_tracks' = IF gal_pc = "call" THEN <<>> ELSE gal_tracks
    /\ gal_stream' = IF gal_pc = "call" THEN <<>> ELSE gal_stream
    /\ UNCHANGED <<fetch_limit, fetch_next, fetch_likes>>
    /\ FetchFrame

\* main, lines 241-245, and the next turn of its loop
Store ==
    /\ gal_pc = "return"
    /\ fetch_likes' = IF Fetched(gal_ret.name, gal_ret.tracks)
                      THEN DictSet(fetch_likes, gal_ret.name, gal_ret.tracks)
                      ELSE fetch_likes
    /\ fetch_next' = fetch_next + 1
    /\ gal_pc' = IF fetch_next < MaxFetchUrls THEN "call" ELSE "done"
    /\ UNCHANGED <<fetch_limit, gal_tracks, gal_stream, gal_ret, fetch_failed>>
    /\ FetchFrame

FetchNext ==
    \/ Resolved
    \/ NotResolved
    \/ \E like \in Likes : NextLike(like)
    \/ LikesEnd
    \/ FetchRaises
    \/ Store

SpecFetch == FetchInit /\ [][FetchNext]_vars

\* the likes of stream l that carry a track, in order
TrackLikes(l) == SelectSeq(l, HasTrack)

\* the first n elements of l (none for n <= 0)
Take(l, n) == SubSeq(l, 1, IF n < Len(l) THEN n ELSE Len(l))

\* get_artist_likes has returned without raising
Returned == gal_pc = "return" /\ fetch_next \notin fetch_failed

StoredNames == {fetch_likes[i].name : i \in 1..Len(fetch_likes)}

\* C28: a fetch that raises returns (None, []); main stores nothing for that
\* artist and goes on with the next url; no failed artist is in artist_likes.
C28_FailedArtistLeftOut ==
    /\ []((gal_pc = "return" /\ fetch_next \in fetch_failed) =>
             gal_ret = [name |-> NoName, tracks |-> <<>>])
    /\ [](\A k \in fetch_failed : NamePool[k] \notin StoredNames)
    /\ [][(gal_pc = "return" /\ fetch_next \in fetch_failed) =>
             /\ fetch_likes' = fetch_likes
             /\ fetch_next' = fetch_next + 1
             /\ gal_pc' = IF fetch_next < MaxFetchUrls THEN "call" ELSE "done"
         ]_vars

\* the fetch of the second artist raised after a track had been collected,
\* with the first artist stored
C28_Witness ==
    /\ gal_pc = "return"
    /\ 2 \in fetch_failed
    /\ gal_tracks # <<>>
    /\ StoredNames = {NamePool[1]}

(***************************************************************************)
(* SoundCloudToSpotify.convert, and with it the job of the Telegram bot:   *)
(* the two pipelines download, identify, create.  conv_did lists what      *)
(* convert has started, with "identified" for identify_tracks returning.   *)
(***************************************************************************)
\* most tracks identified or loaded
MaxConvTracks == 2

NoTracksError == "No tracks were identified in the audio"

NoTracksNever(tracks) == FALSE

\* not tracks
NoTracks(tracks) == tracks = <<>>

ConvStart ==
    /\ conv_pc = "start"
    /\ conv_args \in [load : BOOLEAN, save : BOOLEAN]
    /\ conv_tracks = <<>>
    /\ conv_did = <<>>
    /\ conv_error = "none"

\* one of the two programs runs: the bot, or the command line with convert
PipeInit ==
    /\ \/ /\ active_jobs = <<>>
          /\ job_pc = [j \in Jobs |-> "idle"]
          /\ job_user = [j \in Jobs |-> "none"]
          /\ job_did = [j \in Jobs |-> <<>>]
          /\ ConvOff
       \/ /\ BotOff
          /\ ConvStart
    /\ FclOff
    /\ MainOff
    /\ CallsOff
    /\ WalkOff
    /\ BatchOff
    /\ FetchOff

ConvFrame == UNCHANGED <<coreVars, walkVars, batchVars, fetchVars, conv_args>>

ConvDid(what) == conv_did' = conv_did \o what

\* lines 334-345: the tracks file is loaded, or the download is started
ConvBegin ==
    /\ conv_pc = "start"
    /\ IF conv_args.load
       THEN conv_pc' = "load" /\ ConvDid(<<"load">>)
       ELSE conv_pc' = "download" /\ ConvDid(<<"download">>)
    /\ UNCHANGED <<conv_tracks, conv_error>>
    /\ ConvFrame

\* load_tracks returns n tracks; lines 359-365 start the playlist creation
ConvLoaded(n) ==
    /\ conv_pc = "load"
    /\ conv_tracks' = [k \in 1..n |-> k]
    /\ conv_pc' = "create"
    /\ ConvDid(<<"create">>)
    /\ UNCHANGED conv_error
    /\ ConvFrame

\* download_audio returns; identify_tracks is started
ConvDownloaded ==
    /\ conv_pc = "download"
    /\ conv_pc' = "identify"
    /\ ConvDid(<<"identify">>)
    /\ UNCHANGED <<conv_tracks, conv_error>>
    /\ ConvFrame

\* identify_tracks returns n tracks: lines 350-365
ConvIdentified(n) ==
    /\ conv_pc = "identify"
    /\ conv_tracks' = [k \in 1..n |-> k]
    /\ IF NoTracks(conv_tracks')
       THEN /\ conv_pc' = "failed"
            /\ conv_error' = NoTracksError
            /\ ConvDid(<<"identified">>)
       ELSE /\ conv_pc' = "create"
            /\ UNCHANGED conv_error
            /\ ConvDid(<<"identified">>
                         \o (IF conv_args.save THEN <<"save">> ELSE <<>>)
                         \o <<"create">>)
    /\ ConvFrame

\* create_spotify_playlist returns the playlist url
ConvCreated ==
    /\ conv_pc = "create"
    /\ conv_pc' = "done"
    /\ UNCHANGED <<conv_tracks, conv_did, conv_error>>
    /\ ConvFrame

\* the step under way raises: the exception leaves convert
ConvRaises ==
    /\ conv_pc \in {"load", "download", "identify", "create"}
    /\ conv_pc' = "failed"
    /\ conv_error' = "other"
    /\ UNCHANGED <<conv_tracks, conv_did>>
    /\ ConvFrame

ConvNext ==
    \/ ConvBegin
    \/ \E n \in 0..MaxConvTracks : ConvLoaded(n)
    \/ ConvDownloaded
    \/ \E n \in 0..MaxConvTracks : ConvIdentified(n)
    \/ ConvCreated
    \/ ConvRaises

PipeNext ==
    \/ job_pc # <<>> /\ BotNext
    \/ ConvNext

SpecPipe == PipeInit /\ [][PipeNext]_vars

Has(log, what) == \E p \in 1..Len(log) : log[p] = what

\* the job of message j starts the playlist creation in this step
BotCreates(j) == job_did'[j] = Append(job_did[j], "create")

\* C29: convert raises 'No tracks were identified in the audio' and creates
\* no playlist when identify_tracks returns no track; it creates a playlist
\* only after a loaded tracks file or after download and identification, in
\* that order.  A bot job whose identification found nothing replies and ends
\* without creating a playlist; it creates one only from the reply that
\* follows a download and an identification that found tracks.
C29_NoTracksNoPlaylist ==
    /\ []((Has(conv_did, "identified") /\ conv_tracks = <<>>) =>
             /\ conv_pc = "failed"
             /\ conv_error = NoTracksError
             /\ ~Has(conv_did, "create"))
    /\ [](Has(conv_did, "create") =>
             \/ conv_did = <<"load", "create">>
             \/ /\ SubSeq(conv_did, 1, 3) = <<"download", "identify", "identified">>
                /\ conv_did[Len(conv_did)] = "create"
                /\ conv_tracks # <<>>)
    /\ [][\A j \in DOMAIN job_pc :
            /\ BotCreates(j) =>
                  (job_pc[j] = "found_reply" /\ job_did[j] = <<"download", "identify">>)
            /\ (job_pc'[j] = "found_reply" /\ job_pc[j] # "found_reply") =>
                  job_pc[j] = "identify"
            /\ job_pc[j] \in {"none_reply", "error_reply", "done"} =>
                  /\ job_pc'[j] \in {job_pc[j], "error_reply", "done"}
                  /\ job_did'[j] = job_did[j]
         ]_vars

\* convert failed because nothing was identified
C29_Witness ==
    /\ conv_pc = "failed"
    /\ conv_error = NoTracksError
    /\ conv_did = <<"download", "identify", "identified">>

====
